---- MODULE Spec2Model ----
(***************************************************************************)
(* StatsBomb event deserializer                                            *)
(* (kloppy/infra/serializers/event/statsbomb/deserializer.py).             *)
(*                                                                         *)
(* StatsBombDeserializer.deserialize as a state machine: the raw events    *)
(* and the two lineups are the input, the fidelity scan and the roster     *)
(* building are one step each, the for-loop over raw_events is one step    *)
(* per raw event, and the construction of the EventDataset is the last     *)
(* step.  An exception leaves the call in pc = "failed".                   *)
(*                                                                         *)
(* Numbers.  Timestamps are integers in milliseconds (0.001 s is 1).       *)
(* Cell coordinates are integers in twentieths of a cell, so that both     *)
(* half cell sides (0.5 and 0.05) are integers.  Python's None is a value  *)
(* of the field's own type that no input produces (NoKey, NoPoint, ...).   *)
(* Raw fields that only carry display data (names, jersey numbers,         *)
(* durations) are left out.                                                *)
(***************************************************************************)
EXTENDS Integers, Sequences, FiniteSets, TLC

VARIABLES
    raw_events,             \* json.load(inputs.event_data)
    home_lineup,            \* first object of json.load(inputs.lineup_data)
    away_lineup,            \* second object of json.load(inputs.lineup_data)
    included,               \* configuration of should_include_event
    pc,                     \* position of the call
    shot_fidelity_version,
    xy_fidelity_version,
    home_team,
    away_team,
    periods,                \* the list periods; period is its last element
    events,                 \* the list events (the dataset's records)
    new_events,             \* new_events of the last completed iteration
    produced,               \* history: every event constructed, in order
    idx,                    \* position of the for-loop in raw_events
    error,                  \* the exception that ended the call
    dataset                 \* the returned EventDataset

vars == <<raw_events, home_lineup, away_lineup, included, pc,
          shot_fidelity_version, xy_fidelity_version, home_team, away_team,
          periods, events, new_events, produced, idx, error, dataset>>

----------------------------------------------------------------------------
(* Vendor codes *)

SB_EVENT_TYPE_RECOVERY == 2
SB_EVENT_TYPE_DRIBBLE == 14
SB_EVENT_TYPE_SHOT == 16
SB_EVENT_TYPE_PASS == 30
SB_EVENT_TYPE_CARRY == 43
SB_EVENT_TYPE_HALF_START == 18
SB_EVENT_TYPE_STARTING_XI == 35
SB_EVENT_TYPE_SUBSTITUTION == 19
SB_EVENT_TYPE_FOUL_COMMITTED == 22
SB_EVENT_TYPE_BAD_BEHAVIOUR == 24
SB_EVENT_TYPE_PLAYER_ON == 26
SB_EVENT_TYPE_PLAYER_OFF == 27

SB_PASS_OUTCOME_COMPLETE == 8
SB_PASS_OUTCOME_INCOMPLETE == 9
SB_PASS_OUTCOME_INJURY_CLEARANCE == 74
SB_PASS_OUTCOME_OUT == 75
SB_PASS_OUTCOME_OFFSIDE == 76
SB_PASS_OUTCOME_UNKNOWN == 77

SB_SHOT_OUTCOME_BLOCKED == 96
SB_SHOT_OUTCOME_GOAL == 97
SB_SHOT_OUTCOME_OFF_TARGET == 98
SB_SHOT_OUTCOME_POST == 99
SB_SHOT_OUTCOME_SAVED == 100
SB_SHOT_OUTCOME_OFF_WAYWARD == 101
SB_SHOT_OUTCOME_SAVED_OFF_TARGET == 115
SB_SHOT_OUTCOME_SAVED_TO_POST == 116

SB_EVENT_TYPE_FREE_KICK == 62
SB_EVENT_TYPE_THROW_IN == 67
SB_EVENT_TYPE_KICK_OFF == 65
SB_EVENT_TYPE_CORNER_KICK == 61
SB_EVENT_TYPE_PENALTY == 88
SB_EVENT_TYPE_GOAL_KICK == 63

OUT_EVENT_RESULTS == {"PassResult.OUT", "TakeOnResult.OUT"}

SB_BODYPART_BOTH_HANDS == 35
SB_BODYPART_CHEST == 36
SB_BODYPART_HEAD == 37
SB_BODYPART_LEFT_FOOT == 38
SB_BODYPART_LEFT_HAND == 39
SB_BODYPART_RIGHT_FOOT == 40
SB_BODYPART_RIGHT_HAND == 41
SB_BODYPART_DROP_KICK == 68
SB_BODYPART_KEEPER_ARM == 69
SB_BODYPART_OTHER == 70
SB_BODYPART_NO_TOUCH == 106

----------------------------------------------------------------------------
(* Values *)

\* A key that the raw JSON object does not hold ("outcome" not in pass_dict).
NoKey == -1

\* A location that the raw JSON object does not hold.
NoLocation == << >>

\* None where a Point is expected.
NoPoint == [x |-> 0, y |-> 0, cs |-> "None"]

\* None where a Player is expected.
NoPlayer == [team |-> "None", player_id |-> "None"]

\* qualifiers=None
NoQualifiers == <<"None">>

\* No exception.
NoError == [type |-> "None", what |-> "None", arg |-> NoKey]

DeserializationError(what, arg) ==
    [type |-> "DeserializationError", what |-> what, arg |-> arg]

\* The call has not returned.
NoDataset == [returned |-> FALSE, records |-> << >>, periods |-> << >>]

\* Twentieths in one cell: a raw coordinate c is whole iff c % CELL = 0.
CELL == 20

\* 0.001 s, in milliseconds.
EPSILON == 1

\* str() of a JSON integer id.
Str(n) ==
    <<"0", "1", "2", "3", "4", "5", "6", "7", "8", "9">>[n + 1]

\* parse_str_ts: "HH:MM:SS.fff" as <<h, m, ms>>, to milliseconds.
parse_str_ts(timestamp) ==
    timestamp[1] * 3600000 + timestamp[2] * 60000 + timestamp[3]

\* float.is_integer of a raw coordinate.
is_integer(c) == c % CELL = 0

\* _parse_coordinates
ParseCoordinates(coordinates, fidelity_version) ==
    LET cell_side == IF fidelity_version = 2 THEN CELL \div 10 ELSE CELL
        cell_relative_center == cell_side \div 2
    IN  [x |-> coordinates[1] - cell_relative_center,
         y |-> coordinates[2] - cell_relative_center,
         cs |-> "statsbomb"]

----------------------------------------------------------------------------
(* Attribute mappers *)

\* Team.get_player_by_id: the roster's player with that id, else None.
get_player_by_id(team, player_id) ==
    IF \E i \in 1..Len(team.players) : team.players[i].player_id = Str(player_id)
    THEN [team |-> team.ground, player_id |-> Str(player_id)]
    ELSE NoPlayer

\* _parse_bodypart
ParseBodypart(event_dict) ==
    LET bodypart_id == event_dict.body_part
        ok(bp) == [err |-> NoError, body_part |-> bp]
    IN  IF bodypart_id = SB_BODYPART_BOTH_HANDS THEN ok("BodyPart.BOTH_HANDS")
        ELSE IF bodypart_id = SB_BODYPART_CHEST THEN ok("BodyPart.CHEST")
        ELSE IF bodypart_id = SB_BODYPART_HEAD THEN ok("BodyPart.HEAD")
        ELSE IF bodypart_id = SB_BODYPART_LEFT_FOOT THEN ok("BodyPart.LEFT_FOOT")
        ELSE IF bodypart_id = SB_BODYPART_LEFT_HAND THEN ok("BodyPart.LEFT_HAND")
        ELSE IF bodypart_id = SB_BODYPART_RIGHT_FOOT THEN ok("BodyPart.RIGHT_FOOT")
        ELSE IF bodypart_id = SB_BODYPART_RIGHT_HAND THEN ok("BodyPart.RIGHT_HAND")
        ELSE IF bodypart_id = SB_BODYPART_DROP_KICK THEN ok("BodyPart.DROP_KICK")
        ELSE IF bodypart_id = SB_BODYPART_KEEPER_ARM THEN ok("BodyPart.KEEPER_ARM")
        ELSE IF bodypart_id = SB_BODYPART_OTHER THEN ok("BodyPart.OTHER")
        ELSE IF bodypart_id = SB_BODYPART_NO_TOUCH THEN ok("BodyPart.NO_TOUCH")
        ELSE [err |-> DeserializationError("Unknown body part", bodypart_id),
              body_part |-> "None"]

\* The SetPieceQualifier of _get_event_qualifiers, as a list.
SetPieceQualifiers(t) ==
    IF t = NoKey THEN << >>
    ELSE IF t = SB_EVENT_TYPE_CORNER_KICK THEN <<"SetPieceType.CORNER_KICK">>
    ELSE IF t = SB_EVENT_TYPE_FREE_KICK THEN <<"SetPieceType.FREE_KICK">>
    ELSE IF t = SB_EVENT_TYPE_PENALTY THEN <<"SetPieceType.PENALTY">>
    ELSE IF t = SB_EVENT_TYPE_THROW_IN THEN <<"SetPieceType.THROW_IN">>
    ELSE IF t = SB_EVENT_TYPE_KICK_OFF THEN <<"SetPieceType.KICK_OFF">>
    ELSE IF t = SB_EVENT_TYPE_GOAL_KICK THEN <<"SetPieceType.GOAL_KICK">>
    ELSE << >>

\* The BodyPartQualifier appended to the list, or _parse_bodypart's exception.
WithBodyPart(qualifiers, bp) ==
    IF bp.err # NoError
    THEN [err |-> bp.err, qualifiers |-> << >>]
    ELSE [err |-> NoError, qualifiers |-> Append(qualifiers, bp.body_part)]

\* _get_event_qualifiers
GetEventQualifiers(qualifiers_dict) ==
    IF qualifiers_dict.body_part = NoKey
    THEN [err |-> NoError,
          qualifiers |-> SetPieceQualifiers(qualifiers_dict.sp_type)]
    ELSE WithBodyPart(SetPieceQualifiers(qualifiers_dict.sp_type),
                      ParseBodypart(qualifiers_dict))

\* A faulty PassResultOf: an outcome code it does not know is mapped to None
\* instead of raising.
PassResultOf_Lenient(outcome_id) ==
    IF outcome_id = SB_PASS_OUTCOME_OUT
    THEN [err |-> NoError, result |-> "PassResult.OUT"]
    ELSE IF outcome_id = SB_PASS_OUTCOME_INCOMPLETE
    THEN [err |-> NoError, result |-> "PassResult.INCOMPLETE"]
    ELSE IF outcome_id = SB_PASS_OUTCOME_OFFSIDE
    THEN [err |-> NoError, result |-> "PassResult.OFFSIDE"]
    ELSE IF outcome_id = SB_PASS_OUTCOME_INJURY_CLEARANCE
    THEN [err |-> NoError, result |-> "PassResult.OUT"]
    ELSE [err |-> NoError, result |-> "None"]

\* The result of _parse_pass for an outcome id: the if/elif chain.
PassResultOf(outcome_id) ==
    IF outcome_id = SB_PASS_OUTCOME_OUT
    THEN [err |-> NoError, result |-> "PassResult.OUT"]
    ELSE IF outcome_id = SB_PASS_OUTCOME_INCOMPLETE
    THEN [err |-> NoError, result |-> "PassResult.INCOMPLETE"]
    ELSE IF outcome_id = SB_PASS_OUTCOME_OFFSIDE
    THEN [err |-> NoError, result |-> "PassResult.OFFSIDE"]
    ELSE IF outcome_id = SB_PASS_OUTCOME_INJURY_CLEARANCE
    THEN [err |-> NoError, result |-> "PassResult.OUT"]
    ELSE IF outcome_id = SB_PASS_OUTCOME_UNKNOWN
    THEN [err |-> NoError, result |-> "None"]
    ELSE [err |-> DeserializationError("Unknown pass outcome", outcome_id),
          result |-> "None"]

\* _parse_pass, once the outcome (mapped) and the qualifiers (q) are mapped.
PassKwargs(pass_dict, team, fidelity_version, mapped, q) ==
    IF mapped.err # NoError \/ q.err # NoError
    THEN [err |-> IF mapped.err # NoError THEN mapped.err ELSE q.err,
          result |-> "None",
          receiver_coordinates |-> NoPoint,
          receiver_player |-> NoPlayer,
          qualifiers |-> << >>]
    ELSE [err |-> NoError,
          result |-> mapped.result,
          receiver_coordinates |->
              ParseCoordinates(pass_dict.end_location, fidelity_version),
          receiver_player |->
              IF pass_dict.outcome # NoKey THEN NoPlayer
              ELSE get_player_by_id(team, pass_dict.recipient),
          qualifiers |-> q.qualifiers]

\* _parse_pass
ParsePass(pass_dict, team, fidelity_version) ==
    PassKwargs(pass_dict, team, fidelity_version,
               IF pass_dict.outcome # NoKey
               THEN PassResultOf(pass_dict.outcome)
               ELSE [err |-> NoError, result |-> "PassResult.COMPLETE"],
               GetEventQualifiers(pass_dict))

\* The result of _parse_shot for an outcome id: the if/elif chain.
ShotResultOf(outcome_id) ==
    IF outcome_id = SB_SHOT_OUTCOME_OFF_TARGET
    THEN [err |-> NoError, result |-> "ShotResult.OFF_TARGET"]
    ELSE IF outcome_id = SB_SHOT_OUTCOME_SAVED
    THEN [err |-> NoError, result |-> "ShotResult.SAVED"]
    ELSE IF outcome_id = SB_SHOT_OUTCOME_SAVED_OFF_TARGET
    THEN [err |-> NoError, result |-> "ShotResult.SAVED"]
    ELSE IF outcome_id = SB_SHOT_OUTCOME_SAVED_TO_POST
    THEN [err |-> NoError, result |-> "ShotResult.SAVED"]
    ELSE IF outcome_id = SB_SHOT_OUTCOME_POST
    THEN [err |-> NoError, result |-> "ShotResult.POST"]
    ELSE IF outcome_id = SB_SHOT_OUTCOME_OFF_WAYWARD
    THEN [err |-> NoError, result |-> "ShotResult.OFF_TARGET"]
    ELSE IF outcome_id = SB_SHOT_OUTCOME_BLOCKED
    THEN [err |-> NoError, result |-> "ShotResult.BLOCKED"]
    ELSE IF outcome_id = SB_SHOT_OUTCOME_GOAL
    THEN [err |-> NoError, result |-> "ShotResult.GOAL"]
    ELSE [err |-> DeserializationError("Unknown shot outcome", outcome_id),
          result |-> "None"]

\* _parse_shot, once the outcome (mapped) and the qualifiers (q) are mapped.
ShotKwargs(mapped, q) ==
    IF mapped.err # NoError \/ q.err # NoError
    THEN [err |-> IF mapped.err # NoError THEN mapped.err ELSE q.err,
          result |-> "None", qualifiers |-> << >>]
    ELSE [err |-> NoError, result |-> mapped.result,
          qualifiers |-> q.qualifiers]

\* _parse_shot
ParseShot(shot_dict) ==
    ShotKwargs(ShotResultOf(shot_dict.outcome), GetEventQualifiers(shot_dict))

\* _parse_carry
ParseCarry(carry_dict, fidelity_version) ==
    [err |-> NoError,
     result |-> "CarryResult.COMPLETE",
     end_coordinates |-> ParseCoordinates(carry_dict.end_location, fidelity_version)]

\* _parse_take_on
ParseTakeOn(take_on_dict) ==
    LET outcome_id == take_on_dict.outcome
    IN  IF outcome_id = NoKey
        THEN [err |-> NoError, result |-> "TakeOnResult.COMPLETE"]
        ELSE IF outcome_id = SB_PASS_OUTCOME_OUT
        THEN [err |-> NoError, result |-> "TakeOnResult.OUT"]
        ELSE IF outcome_id = SB_PASS_OUTCOME_INCOMPLETE
        THEN [err |-> NoError, result |-> "TakeOnResult.INCOMPLETE"]
        ELSE IF outcome_id = SB_PASS_OUTCOME_COMPLETE
        THEN [err |-> NoError, result |-> "TakeOnResult.COMPLETE"]
        ELSE [err |-> DeserializationError("Unknown pass outcome", outcome_id),
              result |-> "None"]

\* A faulty ParseSubstitution: the id is looked up in both rosters.
ParseSubstitution_AnyTeam(substitution_dict, team) ==
    IF \E t \in {home_team, away_team} : \E i \in 1..Len(t.players) :
           t.players[i].player_id = Str(substitution_dict.replacement)
    THEN [err |-> NoError,
          replacement_player |->
              [team |-> team.ground,
               player_id |-> Str(substitution_dict.replacement)]]
    ELSE [err |-> DeserializationError("Could not find replacement player",
                                       substitution_dict.replacement),
          replacement_player |-> NoPlayer]

\* _parse_substitution: the first roster player whose id is the replacement's.
ParseSubstitution(substitution_dict, team) ==
    LET hits == {i \in 1..Len(team.players) :
                    team.players[i].player_id = Str(substitution_dict.replacement)}
    IN  IF hits = {}
        THEN [err |-> DeserializationError("Could not find replacement player",
                                           substitution_dict.replacement),
              replacement_player |-> NoPlayer]
        ELSE LET first == CHOOSE i \in hits : \A j \in hits : i <= j
             IN  [err |-> NoError,
                  replacement_player |->
                      [team |-> team.ground,
                       player_id |-> team.players[first].player_id]]

\* _parse_card
ParseCard(card_id) ==
    IF card_id \in {5, 65} THEN [err |-> NoError, card_type |-> "CardType.RED"]
    ELSE IF card_id \in {6, 66}
    THEN [err |-> NoError, card_type |-> "CardType.SECOND_YELLOW"]
    ELSE IF card_id \in {7, 67}
    THEN [err |-> NoError, card_type |-> "CardType.FIRST_YELLOW"]
    ELSE [err |-> DeserializationError("Unknown card id", card_id),
          card_type |-> "None"]

\* '"card" in bad_behaviour' (has_card) and the parsed card.
CardKwargs(c) == [err |-> c.err, has_card |-> TRUE, card_type |-> c.card_type]

\* _parse_bad_behaviour
ParseBadBehaviour(bad_behaviour_dict) ==
    IF bad_behaviour_dict.card # NoKey
    THEN CardKwargs(ParseCard(bad_behaviour_dict.card))
    ELSE [err |-> NoError, has_card |-> FALSE, card_type |-> "None"]

\* _parse_foul_committed
ParseFoulCommitted(foul_committed_dict) ==
    IF foul_committed_dict.card # NoKey
    THEN CardKwargs(ParseCard(foul_committed_dict.card))
    ELSE [err |-> NoError, has_card |-> FALSE, card_type |-> "None"]

\* A faulty FidelityAfter: a non-whole location of any event type other than
\* a shot raises the movement version.
FidelityAfter_AnyType(event, v) ==
    IF event.location = NoLocation THEN v
    ELSE IF is_integer(event.location[1]) /\ is_integer(event.location[2])
    THEN v
    ELSE IF event.type = SB_EVENT_TYPE_SHOT THEN [v EXCEPT !.shot = 2]
    ELSE [v EXCEPT !.xy = 2]

\* The body of _determine_xy_fidelity_versions' loop: the two versions after
\* the event, v being the two versions before it. x and y are the first two
\* elements of the location; further elements are not looked at.
FidelityAfter(event, v) ==
    IF event.location = NoLocation THEN v
    ELSE IF is_integer(event.location[1]) /\ is_integer(event.location[2])
    THEN v
    ELSE IF event.type = SB_EVENT_TYPE_SHOT THEN [v EXCEPT !.shot = 2]
    ELSE IF event.type \in {SB_EVENT_TYPE_CARRY, SB_EVENT_TYPE_DRIBBLE,
                            SB_EVENT_TYPE_PASS}
    THEN [v EXCEPT !.xy = 2]
    ELSE v

\* 'for event in events' of _determine_xy_fidelity_versions, from the i-th
\* event on.
RECURSIVE ScanXyFidelity(_, _, _)
ScanXyFidelity(evs, i, v) ==
    IF i > Len(evs) THEN v
    ELSE ScanXyFidelity(evs, i + 1, FidelityAfter(evs[i], v))

\* _determine_xy_fidelity_versions
DetermineXyFidelityVersions(evs) ==
    ScanXyFidelity(evs, 1, [shot |-> 1, xy |-> 1])

----------------------------------------------------------------------------
(* Timeline assembler: the pieces of one loop iteration *)

\* None where a timestamp is expected.
NoTimestamp == -1

TypeError(what) == [type |-> "TypeError", what |-> what, arg |-> NoKey]

AttributeError(what) == [type |-> "AttributeError", what |-> what, arg |-> NoKey]

\* The team a raw team id names: home_team, away_team, or neither.
ResolveTeam(team_id) ==
    IF team_id = home_lineup.team_id THEN "HOME"
    ELSE IF team_id = away_lineup.team_id THEN "AWAY"
    ELSE "None"

TeamOf(ground) == IF ground = "HOME" THEN home_team ELSE away_team

\* Whether the loop opens a new Period for this raw event.
OpensPeriod(ps, period_id) ==
    ps = << >> \/ ps[Len(ps)].id # period_id

\* A faulty PeriodStep: a new Period takes the id of the period before it.
PeriodStep_StaleId(ps, timestamp, period_id) ==
    IF OpensPeriod(ps, period_id)
    THEN IF ps = << >>
         THEN [err |-> NoError,
               periods |-> <<[id |-> period_id,
                              start_timestamp |-> timestamp,
                              end_timestamp |-> NoTimestamp]>>]
         ELSE IF ps[Len(ps)].end_timestamp = NoTimestamp
         THEN [err |-> TypeError("unsupported operand type(s) for +"),
               periods |-> ps]
         ELSE [err |-> NoError,
               periods |-> Append(ps,
                   [id |-> ps[Len(ps)].id,
                    start_timestamp |->
                        timestamp + ps[Len(ps)].end_timestamp + EPSILON,
                    end_timestamp |-> NoTimestamp])]
    ELSE [err |-> NoError,
          periods |-> [ps EXCEPT ![Len(ps)].end_timestamp =
                                     ps[Len(ps)].start_timestamp + timestamp]]

\* The period bookkeeping of one raw event; ps is the list periods and
\* period its last element.
PeriodStep(ps, timestamp, period_id) ==
    IF OpensPeriod(ps, period_id)
    THEN IF ps = << >>
         THEN [err |-> NoError,
               periods |-> <<[id |-> period_id,
                              start_timestamp |-> timestamp,
                              end_timestamp |-> NoTimestamp]>>]
         ELSE IF ps[Len(ps)].end_timestamp = NoTimestamp
         THEN \* timestamp + None
              [err |-> TypeError("unsupported operand type(s) for +"),
               periods |-> ps]
         ELSE [err |-> NoError,
               periods |-> Append(ps,
                   [id |-> period_id,
                    start_timestamp |->
                        timestamp + ps[Len(ps)].end_timestamp + EPSILON,
                    end_timestamp |-> NoTimestamp])]
    ELSE [err |-> NoError,
          periods |-> [ps EXCEPT ![Len(ps)].end_timestamp =
                                     ps[Len(ps)].start_timestamp + timestamp]]

\* The fidelity version the loop picks for an event type.
FidelityFor(event_type) ==
    IF event_type = SB_EVENT_TYPE_SHOT THEN shot_fidelity_version
    ELSE xy_fidelity_version

\* An event made by <Type>Event.create(**generic_event_kwargs, ...): kw is
\* generic_event_kwargs, the other fields are None unless the caller sets them.
Create(event_type, kw) ==
    [event_type |-> event_type,
     event_id |-> kw.event_id,
     period |-> kw.period,
     timestamp |-> kw.timestamp,
     ball_owning_team |-> kw.ball_owning_team,
     ball_state |-> kw.ball_state,
     team |-> kw.team,
     player |-> kw.player,
     coordinates |-> kw.coordinates,
     result |-> "None",
     receiver_coordinates |-> NoPoint,
     receiver_player |-> NoPlayer,
     end_coordinates |-> NoPoint,
     replacement_player |-> NoPlayer,
     card_type |-> "None",
     qualifiers |-> NoQualifiers]

\* Whether the event's class declares receiver_coordinates: only the pass
\* mapper hands that field to create.
HasReceiverCoordinates(event) == event.event_type = "PASS"

Fail(e) == [err |-> e, evs |-> << >>]

\* The SB_EVENT_TYPE_PASS branch, k being _parse_pass's result.
PassEvents(k, kw) ==
    IF k.err # NoError THEN Fail(k.err)
    ELSE [err |-> NoError,
          evs |-> <<[Create("PASS", kw) EXCEPT
                        !.result = k.result,
                        !.receiver_coordinates = k.receiver_coordinates,
                        !.receiver_player = k.receiver_player,
                        !.qualifiers = k.qualifiers]>>]

\* The SB_EVENT_TYPE_SHOT branch, k being _parse_shot's result.
ShotEvents(k, kw) ==
    IF k.err # NoError THEN Fail(k.err)
    ELSE [err |-> NoError,
          evs |-> <<[Create("SHOT", kw) EXCEPT !.result = k.result,
                                               !.qualifiers = k.qualifiers]>>]

\* The SB_EVENT_TYPE_DRIBBLE branch, k being _parse_take_on's result.
TakeOnEvents(k, kw) ==
    IF k.err # NoError THEN Fail(k.err)
    ELSE [err |-> NoError,
          evs |-> <<[Create("TAKE_ON", kw) EXCEPT !.result = k.result]>>]

\* The SB_EVENT_TYPE_CARRY branch, k being _parse_carry's result.
CarryEvents(k, kw) ==
    [err |-> NoError,
     evs |-> <<[Create("CARRY", kw) EXCEPT
                   !.result = k.result,
                   !.end_coordinates = k.end_coordinates]>>]

\* The SB_EVENT_TYPE_SUBSTITUTION branch, k being _parse_substitution's result.
SubstitutionEvents(k, kw) ==
    IF k.err # NoError THEN Fail(k.err)
    ELSE [err |-> NoError,
          evs |-> <<[Create("SUBSTITUTION", kw) EXCEPT
                        !.replacement_player = k.replacement_player]>>]

\* A faulty BadBehaviourEvents: without a card, a standalone event is made.
BadBehaviourEvents_Standalone(k, kw) ==
    IF k.err # NoError THEN Fail(k.err)
    ELSE IF k.has_card
    THEN [err |-> NoError,
          evs |-> <<[Create("CARD", kw) EXCEPT !.card_type = k.card_type]>>]
    ELSE [err |-> NoError, evs |-> <<Create("GENERIC", kw)>>]

\* The SB_EVENT_TYPE_BAD_BEHAVIOUR branch, k being _parse_bad_behaviour's
\* result.
BadBehaviourEvents(k, kw) ==
    IF k.err # NoError THEN Fail(k.err)
    ELSE IF k.has_card
    THEN [err |-> NoError,
          evs |-> <<[Create("CARD", kw) EXCEPT !.card_type = k.card_type]>>]
    ELSE [err |-> NoError, evs |-> << >>]

\* A faulty FoulCommittedEvents: the card event is appended first.
FoulCommittedEvents_CardFirst(k, kw) ==
    IF k.err # NoError THEN Fail(k.err)
    ELSE IF k.has_card
    THEN [err |-> NoError,
          evs |-> <<[Create("CARD", kw) EXCEPT !.card_type = k.card_type],
                    Create("FOUL_COMMITTED", kw)>>]
    ELSE [err |-> NoError, evs |-> <<Create("FOUL_COMMITTED", kw)>>]

\* The SB_EVENT_TYPE_FOUL_COMMITTED branch, k being _parse_foul_committed's
\* result.
FoulCommittedEvents(k, kw) ==
    IF k.err # NoError THEN Fail(k.err)
    ELSE IF k.has_card
    THEN [err |-> NoError,
          evs |-> <<Create("FOUL_COMMITTED", kw),
                    [Create("CARD", kw) EXCEPT !.card_type = k.card_type]>>]
    ELSE [err |-> NoError, evs |-> <<Create("FOUL_COMMITTED", kw)>>]

\* The dispatch on event_type: new_events, or the mapper's exception.
NewEvents(raw_event, kw, team, fidelity_version) ==
    IF raw_event.type = SB_EVENT_TYPE_PASS
    THEN PassEvents(ParsePass(raw_event, team, fidelity_version), kw)
    ELSE IF raw_event.type = SB_EVENT_TYPE_SHOT
    THEN ShotEvents(ParseShot(raw_event), kw)
    ELSE IF raw_event.type = SB_EVENT_TYPE_DRIBBLE
    THEN TakeOnEvents(ParseTakeOn(raw_event), kw)
    ELSE IF raw_event.type = SB_EVENT_TYPE_CARRY
    THEN CarryEvents(ParseCarry(raw_event, fidelity_version), kw)
    ELSE IF raw_event.type = SB_EVENT_TYPE_SUBSTITUTION
    THEN SubstitutionEvents(ParseSubstitution(raw_event, team), kw)
    ELSE IF raw_event.type = SB_EVENT_TYPE_BAD_BEHAVIOUR
    THEN BadBehaviourEvents(ParseBadBehaviour(raw_event), kw)
    ELSE IF raw_event.type = SB_EVENT_TYPE_FOUL_COMMITTED
    THEN FoulCommittedEvents(ParseFoulCommitted(raw_event), kw)
    ELSE IF raw_event.type = SB_EVENT_TYPE_PLAYER_ON
    THEN [err |-> NoError, evs |-> <<Create("PLAYER_ON", kw)>>]
    ELSE IF raw_event.type = SB_EVENT_TYPE_PLAYER_OFF
    THEN [err |-> NoError, evs |-> <<Create("PLAYER_OFF", kw)>>]
    ELSE IF raw_event.type = SB_EVENT_TYPE_RECOVERY
    THEN [err |-> NoError, evs |-> <<Create("RECOVERY", kw)>>]
    ELSE [err |-> NoError, evs |-> <<Create("GENERIC", kw)>>]

\* EventDataDeserializer.should_include_event: the configured event types.
should_include_event(event) == event.event_type \in included

\* Transformer.transform_event: a copy of the event with every coordinate
\* field that is set remapped to the target coordinate system.
transform_point(p) == IF p = NoPoint THEN NoPoint ELSE [p EXCEPT !.cs = "target"]

transform_event(event) ==
    [event EXCEPT !.coordinates = transform_point(@),
                  !.receiver_coordinates = transform_point(@),
                  !.end_coordinates = transform_point(@)]

\* A faulty AppendIncluded: the inclusion filter is not asked.
AppendIncluded_Unfiltered(out, event) == Append(out, transform_event(event))

\* 'if self.should_include_event(event): events.append(transform_event(event))'
AppendIncluded(out, event) ==
    IF should_include_event(event)
    THEN Append(out, transform_event(event))
    ELSE out

\* The synthetic event made for an event with receiver coordinates.
BallOutEvent(event, kw) ==
    Create("BALL_OUT", [kw EXCEPT !.ball_state = "DEAD",
                                  !.coordinates = event.receiver_coordinates])

\* What reading receiver_coordinates gives on an event whose class has no
\* such field: the domain classes decide (an AttributeError, or None).
MissingAttributeOutcomes == {"AttributeError", "None"}

\* The body of 'for event in new_events' after the event itself is handled
\* (out, made): the synthetic out event, when the event ended out of the
\* field.
AfterEvent(event, out, made, kw, missing) ==
    IF event.result \notin OUT_EVENT_RESULTS
    THEN [err |-> NoError, events |-> out, made |-> made]
    ELSE IF ~HasReceiverCoordinates(event)
    THEN [err |-> IF missing = "AttributeError"
                  THEN AttributeError("receiver_coordinates") ELSE NoError,
          events |-> out, made |-> made]
    ELSE IF event.receiver_coordinates # NoPoint
    THEN [err |-> NoError,
          events |-> AppendIncluded(out, BallOutEvent(event, kw)),
          made |-> Append(made, BallOutEvent(event, kw))]
    ELSE [err |-> NoError, events |-> out, made |-> made]

\* The loop 'for event in new_events' from its i-th event on: acc holds the
\* list events and the events handed to should_include_event so far.
RECURSIVE Emit(_, _, _, _, _)
Emit(new, i, acc, kw, missing) ==
    IF i > Len(new) \/ acc.err # NoError THEN acc
    ELSE Emit(new, i + 1,
              AfterEvent(new[i], AppendIncluded(acc.events, new[i]),
                         Append(acc.made, new[i]), kw, missing),
              kw, missing)

----------------------------------------------------------------------------
(* Roster builder *)

\* A faulty StartingPlayerIds: only the first raw event is looked at.
StartingPlayerIds_FirstEvent(evs) ==
    IF evs # << >> /\ evs[1].type = SB_EVENT_TYPE_STARTING_XI
    THEN {Str(evs[1].lineup[j]) : j \in 1..Len(evs[1].lineup)}
    ELSE {}

\* starting_player_ids
StartingPlayerIds(evs) ==
    UNION { {Str(evs[i].lineup[j]) : j \in 1..Len(evs[i].lineup)} :
            i \in {k \in 1..Len(evs) : evs[k].type = SB_EVENT_TYPE_STARTING_XI} }

\* Team(...) with its players
BuildTeam(lineup, ground, starting_player_ids) ==
    [team_id |-> Str(lineup.team_id),
     ground |-> ground,
     players |-> [i \in 1..Len(lineup.lineup) |->
                    [player_id |-> Str(lineup.lineup[i]),
                     starting |-> Str(lineup.lineup[i]) \in starting_player_ids]]]

NoTeam == [team_id |-> "None", ground |-> "None", players |-> << >>]

----------------------------------------------------------------------------
(* The call *)

\* json.load and _determine_xy_fidelity_versions
LoadData ==
    /\ pc = "load"
    /\ LET v == DetermineXyFidelityVersions(raw_events)
       IN  /\ shot_fidelity_version' = v.shot
           /\ xy_fidelity_version' = v.xy
    /\ pc' = "parse"
    /\ UNCHANGED <<raw_events, home_lineup, away_lineup, included, home_team,
                   away_team, periods, events, new_events, produced, idx,
                   error, dataset>>

\* starting_player_ids, home_team, away_team, and the loop's empty lists
BuildRosters ==
    /\ pc = "parse"
    /\ LET starting_player_ids == StartingPlayerIds(raw_events)
       IN  /\ home_team' = BuildTeam(home_lineup, "HOME", starting_player_ids)
           /\ away_team' = BuildTeam(away_lineup, "AWAY", starting_player_ids)
    /\ periods' = << >>
    /\ events' = << >>
    /\ idx' = 1
    /\ pc' = "loop"
    /\ UNCHANGED <<raw_events, home_lineup, away_lineup, included,
                   shot_fidelity_version, xy_fidelity_version, new_events,
                   produced, error, dataset>>

\* What one iteration of 'for raw_event in raw_events' leaves: the exception
\* it raises (or NoError) and the lists.
Left(err, ps, evs, new, made) ==
    [err |-> err, periods |-> ps, events |-> evs, new_events |-> new,
     made |-> made]

\* generic_event_kwargs
GenericEventKwargs(raw_event, team, possession_team, timestamp, ps) ==
    [period |-> Len(ps),
     timestamp |-> timestamp,
     ball_owning_team |-> possession_team,
     ball_state |-> "ALIVE",
     event_id |-> idx,
     team |-> team,
     player |-> IF raw_event.player = NoKey THEN NoPlayer
                ELSE get_player_by_id(TeamOf(team), raw_event.player),
     coordinates |-> IF raw_event.location # NoLocation
                     THEN ParseCoordinates(raw_event.location,
                                           FidelityFor(raw_event.type))
                     ELSE NoPoint]

\* The iteration from 'for event in new_events' on; e is what that loop
\* leaves.
Emitted(ps, n, e) == Left(e.err, ps, e.events, n.evs, e.made)

\* The iteration from the dispatch on; n is new_events or the exception.
Dispatched(ps, kw, n, missing) ==
    IF n.err # NoError
    THEN Left(n.err, ps, events, << >>, produced)
    ELSE Emitted(ps, n,
                 Emit(n.evs, 1,
                      [err |-> NoError, events |-> events, made |-> produced],
                      kw, missing))

\* The iteration from 'player = None' on; kw is generic_event_kwargs.
WithKwargs(raw_event, ps, kw, missing) ==
    Dispatched(ps, kw,
               NewEvents(raw_event, kw, TeamOf(kw.team),
                         FidelityFor(raw_event.type)),
               missing)

\* The iteration from the period bookkeeping on; p is its outcome.
WithPeriod(raw_event, team, possession_team, timestamp, p, missing) ==
    IF p.err # NoError
    THEN Left(p.err, periods, events, << >>, produced)
    ELSE WithKwargs(raw_event, p.periods,
                    GenericEventKwargs(raw_event, team, possession_team,
                                       timestamp, p.periods),
                    missing)

\* The iteration once both teams are resolved.
WithTeams(raw_event, team, possession_team, timestamp, missing) ==
    IF team = "None"
    THEN Left(DeserializationError("Unknown team_id", raw_event.team),
              periods, events, << >>, produced)
    ELSE IF possession_team = "None"
    THEN Left(DeserializationError("Unknown possession_team_id",
                                   raw_event.possession_team),
              periods, events, << >>, produced)
    ELSE WithPeriod(raw_event, team, possession_team, timestamp,
                    PeriodStep(periods, timestamp, raw_event.period),
                    missing)

\* One iteration of 'for raw_event in raw_events'.
Iteration(raw_event, missing) ==
    WithTeams(raw_event, ResolveTeam(raw_event.team),
              ResolveTeam(raw_event.possession_team),
              parse_str_ts(raw_event.timestamp), missing)

\* A faulty Raise: the exception is kept and the loop goes on.
Raise_Swallowed(r) ==
    /\ pc' = "loop"
    /\ error' = r.err
    /\ idx' = idx + 1
    /\ dataset' = dataset

\* An exception leaves deserialize: nothing is returned.
Raise(r) ==
    /\ pc' = "failed"
    /\ error' = r.err
    /\ idx' = idx
    /\ dataset' = dataset

\* The iteration is over: on to the next raw event.
Continue(r) ==
    /\ pc' = "loop"
    /\ error' = error
    /\ idx' = idx + 1
    /\ dataset' = dataset

\* The lists as the iteration r leaves them, and where the call goes.
Leave(r) ==
    /\ periods' = r.periods
    /\ events' = r.events
    /\ new_events' = r.new_events
    /\ produced' = r.made
    /\ IF r.err # NoError THEN Raise(r) ELSE Continue(r)

HandleRawEvent ==
    /\ pc = "loop"
    /\ idx <= Len(raw_events)
    /\ \E missing \in MissingAttributeOutcomes :
         Leave(Iteration(raw_events[idx], missing))
    /\ UNCHANGED <<raw_events, home_lineup, away_lineup, included,
                   shot_fidelity_version, xy_fidelity_version, home_team,
                   away_team>>

\* Metadata(...) and EventDataset(...)
Finish ==
    /\ pc = "loop"
    /\ idx > Len(raw_events)
    /\ dataset' = [returned |-> TRUE, records |-> events, periods |-> periods]
    /\ pc' = "done"
    /\ UNCHANGED <<raw_events, home_lineup, away_lineup, included,
                   shot_fidelity_version, xy_fidelity_version, home_team,
                   away_team, periods, events, new_events, produced, idx, error>>

Next == LoadData \/ BuildRosters \/ HandleRawEvent \/ Finish

----------------------------------------------------------------------------
(* Inputs *)

\* Longest raw event list of Spec.
MaxEvents == 2

\* Longest raw event list, largest period number and largest millisecond
\* of SpecPeriods.
MaxPeriodEvents == 4
MaxPeriod == 2
MaxMillis == 1

\* Largest outcome code of SpecPass.
MaxOutcome == 120

SeqsUpTo(A, n) == UNION {[1..k -> A] : k \in 0..n}

AllEventTypes ==
    {"PASS", "SHOT", "TAKE_ON", "CARRY", "SUBSTITUTION", "CARD",
     "FOUL_COMMITTED", "PLAYER_ON", "PLAYER_OFF", "RECOVERY", "GENERIC",
     "BALL_OUT"}

\* A half-start event of the home team, with no optional key.
BaseEvent ==
    [type |-> SB_EVENT_TYPE_HALF_START, team |-> 1, possession_team |-> 1,
     timestamp |-> <<0, 0, 1>>, period |-> 1, player |-> NoKey,
     location |-> NoLocation, outcome |-> NoKey, end_location |-> NoLocation,
     recipient |-> NoKey, sp_type |-> NoKey, body_part |-> NoKey,
     replacement |-> NoKey, card |-> NoKey, lineup |-> << >>]

PassEventOf(o) ==
    [BaseEvent EXCEPT !.type = SB_EVENT_TYPE_PASS, !.player = 1,
                      !.location = <<60, 40>>, !.end_location = <<80, 20>>,
                      !.outcome = o,
                      !.recipient = IF o = NoKey THEN 2 ELSE NoKey]

HomeLineup == [team_id |-> 1, lineup |-> <<1, 2>>]
AwayLineup == [team_id |-> 2, lineup |-> <<3, 4>>]

\* One raw event of every branch of the loop, with the codes each mapper
\* knows and one it does not (0).
MainAlphabet ==
    {PassEventOf(o) : o \in {NoKey, 0, SB_PASS_OUTCOME_COMPLETE,
                             SB_PASS_OUTCOME_INCOMPLETE,
                             SB_PASS_OUTCOME_INJURY_CLEARANCE,
                             SB_PASS_OUTCOME_OUT, SB_PASS_OUTCOME_OFFSIDE,
                             SB_PASS_OUTCOME_UNKNOWN}}
    \cup {[PassEventOf(NoKey) EXCEPT !.recipient = 9],
          [PassEventOf(SB_PASS_OUTCOME_OUT) EXCEPT
               !.sp_type = SB_EVENT_TYPE_CORNER_KICK,
               !.body_part = SB_BODYPART_HEAD],
          [PassEventOf(SB_PASS_OUTCOME_INCOMPLETE) EXCEPT !.body_part = 0]}
    \cup {[BaseEvent EXCEPT !.type = SB_EVENT_TYPE_SHOT, !.player = 2,
                            !.location = <<61, 40>>, !.outcome = o] :
            o \in {0, SB_SHOT_OUTCOME_GOAL, SB_SHOT_OUTCOME_SAVED_TO_POST}}
    \cup {[BaseEvent EXCEPT !.type = SB_EVENT_TYPE_DRIBBLE, !.player = 1,
                            !.location = <<60, 40>>, !.outcome = o] :
            o \in {NoKey, 0, SB_PASS_OUTCOME_COMPLETE,
                   SB_PASS_OUTCOME_INCOMPLETE, SB_PASS_OUTCOME_OUT}}
    \cup {[BaseEvent EXCEPT !.type = SB_EVENT_TYPE_CARRY, !.player = 1,
                            !.location = <<60, 40>>,
                            !.end_location = <<80, 40>>]}
    \cup {[BaseEvent EXCEPT !.type = SB_EVENT_TYPE_SUBSTITUTION, !.player = 1,
                            !.replacement = r] : r \in {2, 3}}
    \cup {[BaseEvent EXCEPT !.type = t, !.card = c] :
            t \in {SB_EVENT_TYPE_BAD_BEHAVIOUR, SB_EVENT_TYPE_FOUL_COMMITTED},
            c \in {NoKey, 0, 5, 6, 67}}
    \cup {[BaseEvent EXCEPT !.type = t] :
            t \in {SB_EVENT_TYPE_PLAYER_ON, SB_EVENT_TYPE_PLAYER_OFF,
                   SB_EVENT_TYPE_RECOVERY, SB_EVENT_TYPE_HALF_START}}
    \cup {[BaseEvent EXCEPT !.type = SB_EVENT_TYPE_STARTING_XI,
                            !.lineup = <<1>>],
          [BaseEvent EXCEPT !.team = 3],
          [BaseEvent EXCEPT !.possession_team = 3],
          [BaseEvent EXCEPT !.team = 2, !.possession_team = 2, !.player = 9]}

MainFilters ==
    {AllEventTypes} \cup
    {AllEventTypes \ {t} : t \in {"PASS", "BALL_OUT", "CARD"}}

\* The state at the call of deserialize, the inputs apart.
Start ==
    /\ pc = "load"
    /\ shot_fidelity_version = 1
    /\ xy_fidelity_version = 1
    /\ home_team = NoTeam
    /\ away_team = NoTeam
    /\ periods = << >>
    /\ events = << >>
    /\ new_events = << >>
    /\ produced = << >>
    /\ idx = 1
    /\ error = NoError
    /\ dataset = NoDataset

Init ==
    /\ raw_events \in SeqsUpTo(MainAlphabet, MaxEvents)
    /\ home_lineup = HomeLineup
    /\ away_lineup = AwayLineup
    /\ included \in MainFilters
    /\ Start

Spec == Init /\ [][Next]_vars

\* Raw events that differ in period number and timestamp only.
PeriodAlphabet ==
    {[BaseEvent EXCEPT !.period = p, !.timestamp = <<0, 0, t>>] :
        p \in 1..MaxPeriod, t \in 0..MaxMillis}

InitPeriods ==
    /\ raw_events \in SeqsUpTo(PeriodAlphabet, MaxPeriodEvents)
    /\ home_lineup = HomeLineup
    /\ away_lineup = AwayLineup
    /\ included = AllEventTypes
    /\ Start

SpecPeriods == InitPeriods /\ [][Next]_vars

\* One pass event, of any outcome code or none, with a body-part code the
\* mapper knows, one it does not know (0) or none, and with a recipient who
\* is in the roster (2) or is not (9).
PassAlphabet ==
    {[PassEventOf(o) EXCEPT !.body_part = b,
                            !.recipient = IF o = NoKey THEN r ELSE NoKey] :
        o \in {NoKey} \cup 0..MaxOutcome,
        b \in {NoKey, 0, SB_BODYPART_HEAD},
        r \in {2, 9}}

InitPass ==
    /\ raw_events \in {<<e>> : e \in PassAlphabet}
    /\ home_lineup = HomeLineup
    /\ away_lineup = AwayLineup
    /\ included = AllEventTypes
    /\ Start

SpecPass == InitPass /\ [][Next]_vars

\* The player ids of the rosters and starting lineups of SpecRoster.
RosterIds == {1, 2, 3}

\* Longest raw event list of SpecRoster.
MaxRosterEvents == 2

\* The ids of a set, as the ascending list.
RECURSIVE Ascending(_)
Ascending(S) ==
    IF S = {} THEN << >>
    ELSE LET m == CHOOSE x \in S : \A y \in S : x <= y
         IN  <<m>> \o Ascending(S \ {m})

IdLists == {Ascending(S) : S \in SUBSET RosterIds}

\* Starting-lineup events of either team, and one event of another type
\* that carries a lineup as well.
RosterAlphabet ==
    {[BaseEvent EXCEPT !.type = SB_EVENT_TYPE_STARTING_XI, !.lineup = l] :
        l \in IdLists}
    \cup {[BaseEvent EXCEPT !.lineup = <<3>>]}

InitRoster ==
    /\ raw_events \in SeqsUpTo(RosterAlphabet, MaxRosterEvents)
    /\ home_lineup \in {[team_id |-> 1, lineup |-> l] : l \in IdLists}
    /\ away_lineup \in {[team_id |-> 2, lineup |-> l] : l \in IdLists}
    /\ included = AllEventTypes
    /\ Start

SpecRoster == InitRoster /\ [][Next]_vars

\* Pass and dribble events that end out of the field or do not, under every
\* inclusion decision for the pass, the take-on and the BallOut event.
OutAlphabet ==
    {PassEventOf(o) : o \in {NoKey, SB_PASS_OUTCOME_INCOMPLETE,
                             SB_PASS_OUTCOME_INJURY_CLEARANCE,
                             SB_PASS_OUTCOME_OUT}}
    \cup {[BaseEvent EXCEPT !.type = SB_EVENT_TYPE_DRIBBLE, !.player = 1,
                            !.location = <<60, 40>>, !.outcome = o] :
            o \in {SB_PASS_OUTCOME_COMPLETE, SB_PASS_OUTCOME_OUT}}

OutFilters ==
    {AllEventTypes \ S : S \in SUBSET {"PASS", "TAKE_ON", "BALL_OUT"}}

InitOut ==
    /\ raw_events \in SeqsUpTo(OutAlphabet, MaxEvents)
    /\ home_lineup = HomeLineup
    /\ away_lineup = AwayLineup
    /\ included \in OutFilters
    /\ Start

SpecOut == InitOut /\ [][Next]_vars

\* The raw locations of SpecFidelity: none, whole, non-whole in x, non-whole
\* in y, and whole in x and y with a third element that is not.
FidelityLocations ==
    {NoLocation, <<60, 40>>, <<61, 40>>, <<60, 41>>, <<60, 40, 5>>}

\* One raw event of each category the detector tells apart (shot, carry,
\* dribble, pass) and of two it does not (recovery, foul committed), at
\* every location.
FidelityAlphabet ==
    {[BaseEvent EXCEPT !.type = SB_EVENT_TYPE_SHOT, !.player = 2,
                       !.outcome = SB_SHOT_OUTCOME_GOAL, !.location = l] :
        l \in FidelityLocations}
    \cup {[BaseEvent EXCEPT !.type = SB_EVENT_TYPE_CARRY, !.player = 1,
                            !.end_location = <<81, 40>>, !.location = l] :
            l \in FidelityLocations}
    \cup {[BaseEvent EXCEPT !.type = SB_EVENT_TYPE_DRIBBLE, !.player = 1,
                            !.location = l] : l \in FidelityLocations}
    \cup {[PassEventOf(SB_PASS_OUTCOME_OUT) EXCEPT !.location = l] :
            l \in FidelityLocations}
    \cup {[BaseEvent EXCEPT !.type = t, !.location = l] :
            t \in {SB_EVENT_TYPE_RECOVERY, SB_EVENT_TYPE_FOUL_COMMITTED},
            l \in FidelityLocations}

InitFidelity ==
    /\ raw_events \in SeqsUpTo(FidelityAlphabet, MaxEvents)
    /\ home_lineup = HomeLineup
    /\ away_lineup = AwayLineup
    /\ included = AllEventTypes
    /\ Start

SpecFidelity == InitFidelity /\ [][Next]_vars

----------------------------------------------------------------------------
(* Properties *)

\* An iteration of the loop has completed, and raw_events[idx - 1] is the
\* raw event it handled.
Handled == pc \in {"loop", "done"} /\ idx > 1

LastRaw == raw_events[idx - 1]

IsOutEvent(event) ==
    /\ event.event_type \in {"PASS", "TAKE_ON"}
    /\ event.result \in OUT_EVENT_RESULTS

\* Position i of the list evs holds an out event that a BallOut event with
\* the receiver's coordinates and a dead ball follows, and no second one.
FollowedByBallOut(evs, i) ==
    /\ i < Len(evs)
    /\ evs[i + 1].event_type = "BALL_OUT"
    /\ evs[i + 1].coordinates = evs[i].receiver_coordinates
    /\ evs[i + 1].coordinates # NoPoint
    /\ evs[i + 1].ball_state = "DEAD"
    /\ i + 2 <= Len(evs) => evs[i + 2].event_type # "BALL_OUT"

\* C1: every pass or take-on event with result OUT in the output is
\* immediately followed there by exactly one BallOut event that has the
\* event's receiver coordinates and ball state DEAD, when the inclusion
\* filter accepts both events.
C1_OutIsFollowedByBallOut ==
    "BALL_OUT" \in included =>
        \A i \in 1..Len(events) :
            IsOutEvent(events[i]) => FollowedByBallOut(events, i)

\* The part of C1 the loop keeps: the same for pass events alone.
PassOutIsFollowedByBallOut ==
    "BALL_OUT" \in included =>
        \A i \in 1..Len(events) :
            (events[i].event_type = "PASS" /\ IsOutEvent(events[i]))
                => FollowedByBallOut(events, i)

\* C2: in the resulting period list, each period's end timestamp is at
\* least the end timestamp of the period before it plus 0.001, and its start
\* timestamp is greater than that end timestamp.
C2_PeriodsDoNotOverlap ==
    pc = "done" =>
        \A n \in 1..(Len(dataset.periods) - 1) :
            LET this == dataset.periods[n]
                next == dataset.periods[n + 1]
            IN  /\ next.end_timestamp # NoTimestamp
                /\ next.end_timestamp >= this.end_timestamp + EPSILON
                /\ next.start_timestamp > this.end_timestamp

\* The part of C2 the loop keeps: the same for the periods whose end
\* timestamp is set.
ClosedPeriodsDoNotOverlap ==
    \A n \in 1..(Len(periods) - 1) :
        LET this == periods[n]
            next == periods[n + 1]
        IN  /\ this.end_timestamp # NoTimestamp
            /\ next.start_timestamp > this.end_timestamp
            /\ next.end_timestamp # NoTimestamp =>
                   next.end_timestamp >= this.end_timestamp + EPSILON

\* The card type of each card code.
CardTypeOf ==
    (5 :> "CardType.RED") @@ (65 :> "CardType.RED")
    @@ (6 :> "CardType.SECOND_YELLOW") @@ (66 :> "CardType.SECOND_YELLOW")
    @@ (7 :> "CardType.FIRST_YELLOW") @@ (67 :> "CardType.FIRST_YELLOW")

\* C3: a foul-committed raw event produces FoulCommitted, then Card with the
\* mapped card type when it carries a card: two events with a card, one
\* without; the iteration fails for no other reason than a card code that
\* is not mapped.
C3_FoulCommittedThenCard ==
    /\ (Handled /\ LastRaw.type = SB_EVENT_TYPE_FOUL_COMMITTED) =>
          /\ Len(new_events) = IF LastRaw.card = NoKey THEN 1 ELSE 2
          /\ new_events[1].event_type = "FOUL_COMMITTED"
          /\ new_events[1].event_id = idx - 1
          /\ LastRaw.card # NoKey =>
                /\ LastRaw.card \in DOMAIN CardTypeOf
                /\ new_events[2].event_type = "CARD"
                /\ new_events[2].card_type = CardTypeOf[LastRaw.card]
                /\ new_events[2].event_id = idx - 1
    /\ (/\ pc = "failed"
        /\ raw_events[idx].type = SB_EVENT_TYPE_FOUL_COMMITTED
        /\ ResolveTeam(raw_events[idx].team) # "None"
        /\ ResolveTeam(raw_events[idx].possession_team) # "None"
        /\ error.type = "DeserializationError") =>
          /\ error = DeserializationError("Unknown card id", raw_events[idx].card)
          /\ raw_events[idx].card \notin DOMAIN CardTypeOf \cup {NoKey}

\* A foul with a red card has produced FoulCommitted and Card(RED).
C3_Witness ==
    /\ Handled
    /\ LastRaw.type = SB_EVENT_TYPE_FOUL_COMMITTED
    /\ LastRaw.card = 5
    /\ Len(new_events) = 2
    /\ new_events[2].card_type = "CardType.RED"

\* The raw event the call has handled or failed on, when there is one.
Reached == idx > 1 \/ pc = "failed"

ReachedRaw == IF pc = "failed" THEN raw_events[idx] ELSE raw_events[idx - 1]

PassResults ==
    {"PassResult.OUT", "PassResult.INCOMPLETE", "PassResult.OFFSIDE",
     "PassResult.COMPLETE", "None"}

BodyPartCodes ==
    {SB_BODYPART_BOTH_HANDS, SB_BODYPART_CHEST, SB_BODYPART_HEAD,
     SB_BODYPART_LEFT_FOOT, SB_BODYPART_LEFT_HAND, SB_BODYPART_RIGHT_FOOT,
     SB_BODYPART_RIGHT_HAND, SB_BODYPART_DROP_KICK, SB_BODYPART_KEEPER_ARM,
     SB_BODYPART_OTHER, SB_BODYPART_NO_TOUCH}

\* For a pass whose body-part code, if any, is known: the pass mapper maps
\* the outcomes in codes, raising nothing, into PassResults; it raises a
\* deserialization error for every other outcome.
PassMapperTotalOn(codes) ==
    (Reached /\ ReachedRaw.type = SB_EVENT_TYPE_PASS) =>
        IF ReachedRaw.outcome \in codes
        THEN ReachedRaw.body_part \in BodyPartCodes \cup {NoKey} =>
                /\ pc # "failed"
                /\ Len(new_events) = 1
                /\ new_events[1].event_type = "PASS"
                /\ new_events[1].result \in PassResults
        ELSE /\ pc = "failed"
             /\ error = DeserializationError("Unknown pass outcome",
                                             ReachedRaw.outcome)

PassResultTable ==
    (NoKey :> "PassResult.COMPLETE")
    @@ (SB_PASS_OUTCOME_INCOMPLETE :> "PassResult.INCOMPLETE")
    @@ (SB_PASS_OUTCOME_INJURY_CLEARANCE :> "PassResult.OUT")
    @@ (SB_PASS_OUTCOME_OUT :> "PassResult.OUT")
    @@ (SB_PASS_OUTCOME_OFFSIDE :> "PassResult.OFFSIDE")
    @@ (SB_PASS_OUTCOME_UNKNOWN :> "None")

InLineup(lineup, id) == \E j \in 1..Len(lineup.lineup) : lineup.lineup[j] = id

LineupOf(team_id) ==
    IF team_id = home_lineup.team_id THEN home_lineup ELSE away_lineup

\* C5: a substitution whose replacement id matches no player of the acting
\* team's roster fails the call with a deserialization error that names the
\* id; one whose id is in the roster produces a Substitution event whose
\* replacement player is the roster player with that id.
C5_ReplacementPlayerResolved ==
    /\ (Handled /\ LastRaw.type = SB_EVENT_TYPE_SUBSTITUTION) =>
          /\ InLineup(LineupOf(LastRaw.team), LastRaw.replacement)
          /\ Len(new_events) = 1
          /\ new_events[1].event_type = "SUBSTITUTION"
          /\ new_events[1].replacement_player =
                 [team |-> ResolveTeam(LastRaw.team),
                  player_id |-> Str(LastRaw.replacement)]
    /\ (/\ pc = "failed"
        /\ raw_events[idx].type = SB_EVENT_TYPE_SUBSTITUTION
        /\ ResolveTeam(raw_events[idx].team) # "None"
        /\ ResolveTeam(raw_events[idx].possession_team) # "None"
        /\ error.type # "TypeError") =>
          /\ error = DeserializationError("Could not find replacement player",
                                          raw_events[idx].replacement)
          /\ ~InLineup(LineupOf(raw_events[idx].team),
                       raw_events[idx].replacement)

\* A substitution of the home team has failed on a replacement id (3) that
\* only the away roster holds.
C5_Witness ==
    /\ pc = "failed"
    /\ raw_events[idx].type = SB_EVENT_TYPE_SUBSTITUTION
    /\ raw_events[idx].team = home_lineup.team_id
    /\ InLineup(away_lineup, raw_events[idx].replacement)
    /\ error.arg = raw_events[idx].replacement

ShotOutcomeCodes ==
    {SB_SHOT_OUTCOME_BLOCKED, SB_SHOT_OUTCOME_GOAL, SB_SHOT_OUTCOME_OFF_TARGET,
     SB_SHOT_OUTCOME_POST, SB_SHOT_OUTCOME_SAVED, SB_SHOT_OUTCOME_OFF_WAYWARD,
     SB_SHOT_OUTCOME_SAVED_OFF_TARGET, SB_SHOT_OUTCOME_SAVED_TO_POST}

TakeOnOutcomeCodes ==
    {NoKey, SB_PASS_OUTCOME_OUT, SB_PASS_OUTCOME_INCOMPLETE,
     SB_PASS_OUTCOME_COMPLETE}

\* Handling the raw event raises a mapping error: an unresolvable team or
\* possession-team id, an unknown pass, shot or take-on outcome code, an
\* unknown body-part code, an unknown card code, an unresolvable
\* replacement-player id.
HasMappingError(raw) ==
    \/ raw.team \notin {home_lineup.team_id, away_lineup.team_id}
    \/ raw.possession_team \notin {home_lineup.team_id, away_lineup.team_id}
    \/ /\ raw.type = SB_EVENT_TYPE_PASS
       /\ raw.outcome \notin DOMAIN PassResultTable
    \/ /\ raw.type = SB_EVENT_TYPE_SHOT
       /\ raw.outcome \notin ShotOutcomeCodes
    \/ /\ raw.type = SB_EVENT_TYPE_DRIBBLE
       /\ raw.outcome \notin TakeOnOutcomeCodes
    \/ /\ raw.type \in {SB_EVENT_TYPE_PASS, SB_EVENT_TYPE_SHOT}
       /\ raw.body_part \notin BodyPartCodes \cup {NoKey}
    \/ /\ raw.type \in {SB_EVENT_TYPE_BAD_BEHAVIOUR, SB_EVENT_TYPE_FOUL_COMMITTED}
       /\ raw.card \notin DOMAIN CardTypeOf \cup {NoKey}
    \/ /\ raw.type = SB_EVENT_TYPE_SUBSTITUTION
       /\ ~InLineup(LineupOf(raw.team), raw.replacement)

\* The call has failed on raw event idx after handling the ones before it,
\* or has not reached a raw event with a mapping error yet.
AbortedAtFirstMappingError ==
    /\ \A k \in 1..(idx - 1) : ~HasMappingError(raw_events[k])
    /\ (pc = "loop" /\ idx > 1) => error = NoError
    /\ (idx <= Len(raw_events) /\ HasMappingError(raw_events[idx])) =>
           pc \in {"load", "parse", "loop", "failed"}
    /\ pc = "failed" =>
           /\ error # NoError
           /\ dataset = NoDataset
           /\ error.type = "DeserializationError"
                  => HasMappingError(raw_events[idx])
    /\ dataset # NoDataset =>
           /\ pc = "done"
           /\ error = NoError
           /\ \A k \in 1..Len(raw_events) : ~HasMappingError(raw_events[k])

\* C6: when handling the k-th raw event raises a mapping error, the call
\* ends in failure and returns no dataset: the events assembled from the
\* raw events before it are not surfaced, and no later raw event is handled.
C6_MappingErrorAbortsCall ==
    /\ []AbortedAtFirstMappingError
    /\ [][pc = "failed" => FALSE]_vars

\* The second raw event has raised a mapping error after the first one had
\* put an event in the list.
C6_Witness ==
    /\ pc = "failed"
    /\ idx = 2
    /\ Len(events) > 0
    /\ HasMappingError(raw_events[2])
    /\ dataset = NoDataset

\* The raw id is among the nested player ids of a starting-lineup event.
InStartingLineup(id) ==
    \E k \in 1..Len(raw_events) :
        /\ raw_events[k].type = SB_EVENT_TYPE_STARTING_XI
        /\ \E j \in 1..Len(raw_events[k].lineup) : raw_events[k].lineup[j] = id

\* The team holds the lineup's players, in the lineup's order, each flagged
\* starting iff a starting-lineup event names the player's id.
StartingFlagsOf(team, lineup) ==
    /\ Len(team.players) = Len(lineup.lineup)
    /\ \A i \in 1..Len(team.players) :
          /\ team.players[i].player_id = Str(lineup.lineup[i])
          /\ team.players[i].starting <=> InStartingLineup(lineup.lineup[i])

\* C7: after roster building, a player of either team is flagged starting
\* if and only if the player's id is among the nested player ids of a
\* starting-lineup (35) raw event, anywhere in the raw event list.
C7_StartingIffInStartingLineup ==
    pc \notin {"load", "parse"} =>
        /\ StartingFlagsOf(home_team, home_lineup)
        /\ StartingFlagsOf(away_team, away_lineup)

\* Both teams hold player 3, whom only the second raw event names as
\* starting, and both flag that player and no other player.
C7_Witness ==
    /\ pc = "done"
    /\ Len(raw_events) = 2
    /\ raw_events[1].type # SB_EVENT_TYPE_STARTING_XI
    /\ raw_events[2].lineup = <<3>>
    /\ Len(home_team.players) = 2
    /\ Len(away_team.players) = 2
    /\ \A t \in {home_team, away_team} : \A i \in 1..2 :
           t.players[i].starting <=> t.players[i].player_id = "3"

\* The events of a list that the inclusion filter accepts, transformed, in
\* the list's order.
Accepted(evs) ==
    LET keep(e) == e.event_type \in included
        kept == SelectSeq(evs, keep)
    IN  [i \in 1..Len(kept) |-> transform_event(kept[i])]

\* The list holds the events of the raw events in input order, and a BallOut
\* event comes right after the event of the same raw event that caused it.
InProductionOrder(evs) ==
    \A i \in 1..Len(evs) :
        /\ evs[i].event_id \in 1..Len(raw_events)
        /\ i > 1 => evs[i - 1].event_id <= evs[i].event_id
        /\ evs[i].event_type = "BALL_OUT" =>
              /\ i > 1
              /\ evs[i - 1].event_id = evs[i].event_id
              /\ evs[i - 1].result \in OUT_EVENT_RESULTS

\* The events of the last iteration, with their BallOut events, end the list.
EndsWithNewEvents(evs) ==
    LET mine == SelectSeq(evs, LAMBDA e : e.event_id = idx - 1)
    IN  /\ SelectSeq(mine, LAMBDA e : e.event_type # "BALL_OUT") = new_events
        /\ SubSeq(evs, Len(evs) - Len(mine) + 1, Len(evs)) = mine

\* C8: without an error, the output is the sequence of the events produced
\* (raw events in input order, each raw event's events in production order,
\* each followed by its BallOut event) restricted to the events the
\* inclusion filter accepts: none rejected is appended, none accepted is
\* dropped, duplicated or reordered.
C8_OutputIsAcceptedProduced ==
    error = NoError =>
        /\ events = Accepted(produced)
        /\ InProductionOrder(produced)
        /\ Handled => EndsWithNewEvents(produced)
        /\ pc = "done" => dataset.records = events

\* A call has returned two events and has left out a third.
C8_Witness ==
    /\ pc = "done"
    /\ Len(dataset.records) = 2
    /\ Len(produced) = 3
    /\ produced[2].event_type \notin included

\* C9: when the loop opens a new period, the period before it has its end
\* timestamp set, and every period of the list given to Metadata has its
\* end timestamp set, a period that received one raw event included.
C9_PeriodsAreClosed ==
    /\ \A n \in 1..(Len(periods) - 1) : periods[n].end_timestamp # NoTimestamp
    /\ pc = "done" =>
           \A n \in 1..Len(dataset.periods) :
               dataset.periods[n].end_timestamp # NoTimestamp

\* C10 as claimed: the periods of the list have strictly increasing ids.
C10_PeriodIdsIncrease ==
    \A i, j \in 1..Len(periods) : i < j => periods[i].id < periods[j].id

\* The raw events handled so far have non-decreasing period numbers.
PeriodNumbersAscend ==
    \A i, j \in 1..Len(raw_events) :
        (i < j /\ j < idx + (IF pc = "failed" THEN 1 ELSE 0))
            => raw_events[i].period <= raw_events[j].period

\* C10, amended: a new Period never has the id of the period created right
\* before it, and when the period numbers of the raw events do not decrease
\* in input order the periods of the list have strictly increasing ids.
C10_PeriodIdsIncreaseOnAscendingInput ==
    /\ \A n \in 1..(Len(periods) - 1) : periods[n].id # periods[n + 1].id
    /\ PeriodNumbersAscend => C10_PeriodIdsIncrease

\* Period 2 has been opened after period 1.
C10_Witness ==
    /\ pc = "done"
    /\ Len(periods) = 2
    /\ periods[1].id = 1
    /\ periods[2].id = 2
    /\ PeriodNumbersAscend

\* The BallOut events of the output that were made for raw event number id.
BallOutsOf(evs, id) ==
    SelectSeq(evs, LAMBDA e : e.event_type = "BALL_OUT" /\ e.event_id = id)

\* The out event at position i of the events handed to the filter was
\* rejected, the BallOut event was made all the same from its receiver
\* coordinates, and the output holds that BallOut event iff the filter
\* accepts BallOut events.
RejectedOutStillGivesBallOut(i) ==
    /\ FollowedByBallOut(produced, i)
    /\ BallOutsOf(events, produced[i].event_id) =
           IF "BALL_OUT" \in included
           THEN <<transform_event(produced[i + 1])>>
           ELSE << >>

\* C11: when a pass or take-on event has result OUT and the inclusion filter
\* rejects it, the BallOut event is still made, with that event's original
\* receiver coordinates and ball state DEAD, and it is appended to the
\* output if and only if the filter accepts the BallOut event itself.
C11_BallOutMadeWhenOutEventRejected ==
    \A i \in 1..Len(produced) :
        (IsOutEvent(produced[i]) /\ ~should_include_event(produced[i]))
            => RejectedOutStillGivesBallOut(i)

\* The part of C11 the loop keeps: the same for pass events alone.
PassBallOutMadeWhenPassRejected ==
    \A i \in 1..Len(produced) :
        (/\ produced[i].event_type = "PASS"
         /\ IsOutEvent(produced[i])
         /\ ~should_include_event(produced[i]))
            => RejectedOutStillGivesBallOut(i)

\* A rejected pass with result OUT has given a BallOut event in the output.
RejectedPassGaveBallOut ==
    /\ Handled
    /\ LastRaw.type = SB_EVENT_TYPE_PASS
    /\ "PASS" \notin included
    /\ Len(events) > 0
    /\ events[Len(events)].event_type = "BALL_OUT"
    /\ events[Len(events)].event_id = idx - 1

\* The raw event has a location whose x or y is not a whole number.
NonWholeLocation(raw_event) ==
    /\ raw_event.location # NoLocation
    /\ \/ raw_event.location[1] % CELL # 0
       \/ raw_event.location[2] % CELL # 0

\* Some raw event of one of the types has such a location.
Evidence(types) ==
    \E i \in 1..Len(raw_events) :
        raw_events[i].type \in types /\ NonWholeLocation(raw_events[i])

ShotTag == IF Evidence({SB_EVENT_TYPE_SHOT}) THEN 2 ELSE 1

MovementTag ==
    IF Evidence({SB_EVENT_TYPE_CARRY, SB_EVENT_TYPE_DRIBBLE,
                 SB_EVENT_TYPE_PASS})
    THEN 2 ELSE 1

\* The tag C12 gives to a raw event.
TagOf(raw_event) ==
    IF raw_event.type = SB_EVENT_TYPE_SHOT THEN ShotTag ELSE MovementTag

\* The event's coordinates are the raw ones resolved with the tag of its raw
\* event: its own coordinates from the raw location, a pass's receiver
\* coordinates, a carry's end coordinates and a BallOut's coordinates from
\* the raw end location.
ResolvedWith(event, raw_event, tag) ==
    /\ event.event_type # "BALL_OUT" =>
           event.coordinates =
               IF raw_event.location = NoLocation THEN NoPoint
               ELSE ParseCoordinates(raw_event.location, tag)
    /\ event.event_type = "PASS" =>
           event.receiver_coordinates =
               ParseCoordinates(raw_event.end_location, tag)
    /\ event.event_type = "CARRY" =>
           event.end_coordinates =
               ParseCoordinates(raw_event.end_location, tag)
    /\ event.event_type = "BALL_OUT" =>
           event.coordinates = ParseCoordinates(raw_event.end_location, tag)

\* C12: once the detector has run, the shot fidelity version is 2 if and
\* only if some shot event has a location with a non-whole x or y, the
\* movement version is 2 if and only if some carry, dribble or pass event
\* has one, and a non-whole location of any other event type changes
\* neither; every event the assembler makes, the events before the first
\* non-whole location included, has its coordinates resolved with the final
\* shot version if its raw event is a shot and with the final movement
\* version otherwise.
C12_FidelityTagsAndTheirUse ==
    /\ pc # "load" =>
           /\ shot_fidelity_version = ShotTag
           /\ xy_fidelity_version = MovementTag
    /\ \A i \in 1..Len(produced) :
           ResolvedWith(produced[i], raw_events[produced[i].event_id],
                        TagOf(raw_events[produced[i].event_id]))

\* A recovery at a whole location comes before the first non-whole
\* location, that of a carry, dribble or pass, and is resolved at the high
\* movement fidelity, while the shot fidelity stays low.
C12_Witness ==
    /\ pc = "done"
    /\ Len(raw_events) = 2
    /\ raw_events[1].type = SB_EVENT_TYPE_RECOVERY
    /\ raw_events[1].location = <<60, 40>>
    /\ NonWholeLocation(raw_events[2])
    /\ xy_fidelity_version = 2
    /\ shot_fidelity_version = 1
    /\ Len(produced) >= 2
    /\ produced[1].coordinates = [x |-> 59, y |-> 39, cs |-> "statsbomb"]

\* The events of the list evs that were made for raw event number id.
EventsOf(evs, id) == SelectSeq(evs, LAMBDA e : e.event_id = id)

\* The period state after the iteration on raw event number i: the last
\* period is the raw event's, opened by it or with its end timestamp moved
\* to the raw event's timestamp.
PeriodStateUpdated(i) ==
    /\ periods # << >>
    /\ periods[Len(periods)].id = raw_events[i].period
    /\ i = 1 =>
           periods = <<[id |-> raw_events[i].period,
                        start_timestamp |-> parse_str_ts(raw_events[i].timestamp),
                        end_timestamp |-> NoTimestamp]>>
    /\ (i > 1 /\ raw_events[i - 1].period = raw_events[i].period) =>
           periods[Len(periods)].end_timestamp =
               periods[Len(periods)].start_timestamp
               + parse_str_ts(raw_events[i].timestamp)

\* C13: a bad-behaviour raw event produces exactly one event, a Card with
\* the mapped card type, when it carries a card, and no event when it
\* carries none: nothing is appended to the output, though the period state
\* is updated; a card code that is not mapped raises a deserialization
\* error, so that no iteration on such a raw event completes.
C13_BadBehaviourGivesCardOrNothing ==
    /\ (Handled /\ LastRaw.type = SB_EVENT_TYPE_BAD_BEHAVIOUR) =>
          /\ PeriodStateUpdated(idx - 1)
          /\ LastRaw.card = NoKey =>
                /\ new_events = << >>
                /\ EventsOf(produced, idx - 1) = << >>
                /\ EventsOf(events, idx - 1) = << >>
          /\ LastRaw.card # NoKey =>
                /\ LastRaw.card \in DOMAIN CardTypeOf
                /\ Len(new_events) = 1
                /\ new_events[1].event_type = "CARD"
                /\ new_events[1].card_type = CardTypeOf[LastRaw.card]
                /\ new_events[1].event_id = idx - 1
                /\ EventsOf(produced, idx - 1) = new_events
                /\ EventsOf(events, idx - 1) =
                       IF "CARD" \in included
                       THEN <<transform_event(new_events[1])>>
                       ELSE << >>
    /\ (/\ pc = "failed"
        /\ raw_events[idx].type = SB_EVENT_TYPE_BAD_BEHAVIOUR
        /\ ResolveTeam(raw_events[idx].team) # "None"
        /\ ResolveTeam(raw_events[idx].possession_team) # "None"
        /\ error.type = "DeserializationError") =>
          /\ error = DeserializationError("Unknown card id", raw_events[idx].card)
          /\ raw_events[idx].card \notin DOMAIN CardTypeOf \cup {NoKey}

\* A bad behaviour with a second yellow card has given one Card event in the
\* output, and the bad behaviour without a card after it has given none and
\* has moved the end of the period.
C13_Witness ==
    /\ Handled
    /\ idx = 3
    /\ raw_events[1].type = SB_EVENT_TYPE_BAD_BEHAVIOUR
    /\ raw_events[1].card = 6
    /\ LastRaw.type = SB_EVENT_TYPE_BAD_BEHAVIOUR
    /\ LastRaw.card = NoKey
    /\ new_events = << >>
    /\ Len(events) = 1
    /\ events[1].event_type = "CARD"
    /\ events[1].card_type = "CardType.SECOND_YELLOW"
    /\ periods[1].end_timestamp = 2

====
